---------------------------- MODULE Spec2Model ----------------------------
(***************************************************************************)
(* Model of UUID_benchmark.py: four generators of a 14-bit clock sequence  *)
(* and the benchmark runner run_benchmark() that warms them up, times them *)
(* with timeit, summarises the timings and prints a sorted table.          *)
(*                                                                         *)
(* Floating-point values (elapsed seconds, nanoseconds, calls per second)  *)
(* are modelled as exact rationals <<numerator, denominator>> in lowest    *)
(* terms with a positive denominator; rounding is not modelled.            *)
(***************************************************************************)
EXTENDS Integers, Sequences, FiniteSets

VARIABLES
    pc,             \* position of run_benchmark: warmup, case, timing, summarize, done, failed
    numIterations,  \* the value of the global NUM_ITERATIONS during the run
    round,          \* completed rounds of the warmup loop (line 39)
    wpos,           \* next statement of the warmup loop body (lines 40-43)
    caseIdx,        \* index into TEST_CASES of the loop of line 47
    rep,            \* completed repeats of timer.repeat (line 52)
    iter,           \* completed calls of the current timed batch
    times,          \* the list of elapsed totals returned by timer.repeat
    results,        \* the dict results, as a sequence of <<key, value>> in insertion order
    stdout,         \* what has been printed
    warmCalls,      \* per generator: calls made by the warmup loop
    timedCalls,     \* per generator: calls made under the timer
    raised,         \* an exception has been raised and not caught
    entropy,        \* the two bytes the randomness source yields to a generator call
    called,         \* the generator last called on its own
    ret             \* what that call returned

vars == <<pc, numIterations, round, wpos, caseIdx, rep, iter, times, results,
          stdout, warmCalls, timedCalls, raised, entropy, called, ret>>

runnerVars == <<pc, numIterations, round, wpos, caseIdx, rep, iter, times, results,
                stdout, warmCalls, timedCalls, raised>>

genVars == <<entropy, called, ret>>

---------------------------------------------------------------------------
(* Integer helpers *)

Abs(x) == IF x < 0 THEN -x ELSE x

RECURSIVE GCD(_, _)
GCD(a, b) == IF b = 0 THEN a ELSE GCD(b, a % b)

RECURSIVE Pow2(_)
Pow2(k) == IF k = 0 THEN 1 ELSE 2 * Pow2(k - 1)

\* x & y for non-negative integers, bit by bit
RECURSIVE BitAnd(_, _)
BitAnd(x, y) ==
    IF x = 0 \/ y = 0 THEN 0
    ELSE (IF x % 2 = 1 /\ y % 2 = 1 THEN 1 ELSE 0) + 2 * BitAnd(x \div 2, y \div 2)

\* x >> k for a non-negative integer
ShiftRight(x, k) == x \div Pow2(k)

---------------------------------------------------------------------------
(* Rationals standing for Python floats *)

Norm(n, d) ==
    LET g == GCD(Abs(n), Abs(d))
        s == IF d < 0 THEN -1 ELSE 1
    IN  <<s * (n \div g), s * (d \div g)>>

RatAdd(a, b) == Norm(a[1] * b[2] + b[1] * a[2], a[2] * b[2])

\* a / n for an integer n; n = 0 is ZeroDivisionError and is guarded by the caller
RatDivInt(a, n) ==
    LET g == GCD(Abs(a[1]), Abs(n))
    IN  Norm(a[1] \div g, a[2] * (n \div g))

\* a * n for an integer n
RatMulInt(a, n) ==
    LET g == GCD(Abs(n), a[2])
    IN  Norm(a[1] * (n \div g), a[2] \div g)

\* n / a for an integer n; a = 0 is ZeroDivisionError and is guarded by the caller
IntDivRat(n, a) ==
    LET g == GCD(Abs(n), Abs(a[1]))
    IN  Norm((n \div g) * a[2], a[1] \div g)

RatLess(a, b) == a[1] * b[2] < b[1] * a[2]

RECURSIVE RatSum(_)
RatSum(s) == IF s = <<>> THEN <<0, 1>> ELSE RatAdd(s[1], RatSum(Tail(s)))

\* statistics.mean; an empty sequence is StatisticsError and is guarded by the caller
mean(s) == RatDivInt(RatSum(s), Len(s))

---------------------------------------------------------------------------
(* The generators, lines 5-21 *)

Byte == 0 .. 255

MASK_3FFF == 16383

\* int.from_bytes(bytes, byteorder, signed=...) of a 2-byte string
FromBytes(b, byteorder, signed) ==
    LET u == IF byteorder = "big" THEN b[1] * 256 + b[2] ELSE b[2] * 256 + b[1]
    IN  IF signed /\ u >= 32768 THEN u - 65536 ELSE u

\* getrandbits(k) of the random and secrets modules for k <= 16: the source
\* yields a 16-bit word, here given as two bytes, and the top k bits are kept
GetRandBits(k, b) == ShiftRight(FromBytes(b, "big", FALSE), 16 - k)

current_clock_sequence(b) == GetRandBits(14, b)

clockseq_secrets(b) == GetRandBits(14, b)

\* the mask one bit too wide
clockseq_urandom_mask15(b) == BitAnd(FromBytes(b, "big", FALSE), 2 * MASK_3FFF + 1)

clockseq_urandom(b) == BitAnd(FromBytes(b, "big", FALSE), MASK_3FFF)

\* the bytes read in the other order
clockseq_urandom_optimized_little(b) == BitAnd(FromBytes(b, "little", FALSE), MASK_3FFF)

clockseq_urandom_optimized(b) == BitAnd(FromBytes(b, "big", FALSE), MASK_3FFF)

Generators == {"current_clock_sequence", "clockseq_secrets",
               "clockseq_urandom", "clockseq_urandom_optimized"}

\* calling the function named f when the randomness source yields the bytes b
Call(f, b) ==
    CASE f = "current_clock_sequence" -> current_clock_sequence(b)
      [] f = "clockseq_secrets" -> clockseq_secrets(b)
      [] f = "clockseq_urandom" -> clockseq_urandom(b)
      [] f = "clockseq_urandom_optimized" -> clockseq_urandom_optimized(b)

---------------------------------------------------------------------------
(* Benchmark configuration, lines 23-31.  NUM_ITERATIONS (1_000_000) and   *)
(* WARMUP_ROUNDS (100) are scaled down so that a whole run can be explored *)

NUM_ITERATIONS == 2

WARMUP_ROUNDS == 2

\* the literal repeat=5 of timer.repeat, line 52
REPEAT == 5

\* NUM_ITERATIONS as the source sets it
SOURCE_NUM_ITERATIONS == 1000000

\* 1e9, the nanoseconds of a second
NS_PER_S == 1000000000

TEST_CASES ==
    << <<"current (random.getrandbits)", "current_clock_sequence()">>,
       <<"secrets.getrandbits", "clockseq_secrets()">>,
       <<"os.urandom", "clockseq_urandom()">>,
       <<"os.urandom_optimized", "clockseq_urandom_optimized()">> >>

\* the function a timeit statement calls (timeit evaluates stmt in globals())
StmtFunc(stmt) ==
    CASE stmt = "current_clock_sequence()" -> "current_clock_sequence"
      [] stmt = "clockseq_secrets()" -> "clockseq_secrets"
      [] stmt = "clockseq_urandom()" -> "clockseq_urandom"
      [] stmt = "clockseq_urandom_optimized()" -> "clockseq_urandom_optimized"

\* the body of the warmup loop, lines 40-43
WarmupBody == <<"current_clock_sequence", "clockseq_secrets",
                "clockseq_urandom", "clockseq_urandom_optimized">>

\* elapsed seconds a timed batch of a run may take (0.09 s, 0.11 s)
TimeSet == {<<9, 100>>, <<11, 100>>}

\* elapsed seconds the metrics are computed from when taken on their own
SumTimeSet == TimeSet \cup {<<1, 10>>}

---------------------------------------------------------------------------
(* dict and sorted() *)

RECURSIVE DictHas(_, _)
DictHas(d, k) == d # <<>> /\ (d[1][1] = k \/ DictHas(Tail(d), k))

\* d[k] = v: an existing key keeps its place, a new key goes last
RECURSIVE DictSet(_, _, _)
DictSet(d, k, v) ==
    IF d = <<>> THEN << <<k, v>> >>
    ELSE IF d[1][1] = k THEN << <<k, v>> >> \o Tail(d)
    ELSE <<d[1]>> \o DictSet(Tail(d), k, v)

DictGet(d, k) == LET i == CHOOSE j \in 1 .. Len(d) : d[j][1] = k IN d[i][2]

\* the key function of line 72
SortKey(x) == x[2].avg_ns

\* x goes after every element whose key is not greater (sorted() is stable)
RECURSIVE InsertSorted(_, _)
InsertSorted(s, x) ==
    IF s = <<>> THEN <<x>>
    ELSE IF RatLess(SortKey(x), SortKey(s[1])) THEN <<x>> \o s
    ELSE <<s[1]>> \o InsertSorted(Tail(s), x)

RECURSIVE SortedFrom(_, _)
SortedFrom(acc, items) ==
    IF items = <<>> THEN acc
    ELSE SortedFrom(InsertSorted(acc, items[1]), Tail(items))

\* the items left in insertion order
sorted_not_at_all(items) == items

\* sorted(results.items(), key=lambda x: x[1]['avg_ns'])
sorted(items) == SortedFrom(<<>>, items)

---------------------------------------------------------------------------
(* The metrics of lines 55-63; stddev_ns is a square root and is left out  *)
(* of the record, the error stdev raises on fewer than two samples is kept *)

avg_time(ts, n) == RatMulInt(RatDivInt(mean(ts), n), NS_PER_S)

\* the throughput taken from the sum of the totals instead of their mean
ops_per_sec_of_sum(ts, n) == IntDivRat(n, RatSum(ts))

ops_per_sec(ts, n) == IntDivRat(n, mean(ts))

Metrics(ts, n) == [avg_ns |-> avg_time(ts, n), ops_per_sec |-> ops_per_sec(ts, n)]

\* mean and stdev raise StatisticsError, the divisions ZeroDivisionError
MetricsRaise(ts, n) == Len(ts) < 2 \/ n = 0 \/ RatSum(ts)[1] = 0

---------------------------------------------------------------------------
(* run_benchmark, lines 33-73 *)

Line(kind, name, res) ==
    [kind |-> kind, name |-> name, avg_ns |-> res.avg_ns, ops_per_sec |-> res.ops_per_sec]

NoMetrics == [avg_ns |-> <<0, 1>>, ops_per_sec |-> <<0, 1>>]

Text(kind, name) == Line(kind, name, NoMetrics)

RECURSIVE Rows(_)
Rows(items) ==
    IF items = <<>> THEN <<>>
    ELSE <<Line("row", items[1][1], items[1][2])>> \o Rows(Tail(items))

CurName == TEST_CASES[caseIdx][1]

CurFunc == StmtFunc(TEST_CASES[caseIdx][2])

InitRunner(n) ==
    /\ pc = "start"
    /\ numIterations = n
    /\ round = 0
    /\ wpos = 1
    /\ caseIdx = 0
    /\ rep = 0
    /\ iter = 0
    /\ times = <<>>
    /\ results = <<>>
    /\ stdout = <<>>
    /\ warmCalls = [f \in Generators |-> 0]
    /\ timedCalls = [f \in Generators |-> 0]
    /\ raised = FALSE

InitGenIdle ==
    /\ entropy = <<0, 0>>
    /\ called = ""
    /\ ret = -1

Init == InitRunner(NUM_ITERATIONS) /\ InitGenIdle

\* lines 34-38
Begin ==
    /\ pc = "start"
    /\ stdout' = stdout \o <<Text("banner", ""), Text("iterations", ""), Text("warmup", "")>>
    /\ pc' = "warmup"
    /\ UNCHANGED <<numIterations, round, wpos, caseIdx, rep, iter, times, results,
                   warmCalls, timedCalls, raised>>
    /\ UNCHANGED genVars

\* one statement of lines 40-43 returns
WarmupCall ==
    /\ pc = "warmup"
    /\ round < WARMUP_ROUNDS
    /\ warmCalls' = [warmCalls EXCEPT ![WarmupBody[wpos]] = @ + 1]
    /\ IF wpos < Len(WarmupBody)
       THEN wpos' = wpos + 1 /\ round' = round
       ELSE wpos' = 1 /\ round' = round + 1
    /\ UNCHANGED <<pc, numIterations, caseIdx, rep, iter, times, results, stdout,
                   timedCalls, raised>>
    /\ UNCHANGED genVars

\* one statement of lines 40-43 raises; nothing catches it
WarmupRaise ==
    /\ pc = "warmup"
    /\ round < WARMUP_ROUNDS
    /\ warmCalls' = [warmCalls EXCEPT ![WarmupBody[wpos]] = @ + 1]
    /\ raised' = TRUE
    /\ pc' = "failed"
    /\ UNCHANGED <<numIterations, round, wpos, caseIdx, rep, iter, times, results,
                   stdout, timedCalls>>
    /\ UNCHANGED genVars

\* the warmup loop left one round early
WarmupDone_OneRoundShort ==
    /\ pc = "warmup"
    /\ round >= WARMUP_ROUNDS - 1
    /\ wpos = 1
    /\ results' = <<>>
    /\ caseIdx' = 1
    /\ pc' = "case"
    /\ UNCHANGED <<numIterations, round, wpos, rep, iter, times, stdout,
                   warmCalls, timedCalls, raised>>
    /\ UNCHANGED genVars

\* the loop of line 39 ends; line 45
WarmupDone ==
    /\ pc = "warmup"
    /\ round >= WARMUP_ROUNDS
    /\ results' = <<>>
    /\ caseIdx' = 1
    /\ pc' = "case"
    /\ UNCHANGED <<numIterations, round, wpos, rep, iter, times, stdout,
                   warmCalls, timedCalls, raised>>
    /\ UNCHANGED genVars

\* lines 47-52: the next test case, its Timer, and the start of timer.repeat
CaseBegin ==
    /\ pc = "case"
    /\ caseIdx <= Len(TEST_CASES)
    /\ stdout' = Append(stdout, Text("benchmarking", CurName))
    /\ times' = <<>>
    /\ rep' = 0
    /\ iter' = 0
    /\ pc' = "timing"
    /\ UNCHANGED <<numIterations, round, wpos, caseIdx, results,
                   warmCalls, timedCalls, raised>>
    /\ UNCHANGED genVars

\* a timed batch that runs one call too many
TimedCall_OneTooMany ==
    /\ pc = "timing"
    /\ rep < REPEAT
    /\ iter <= numIterations
    /\ timedCalls' = [timedCalls EXCEPT ![CurFunc] = @ + 1]
    /\ iter' = iter + 1
    /\ UNCHANGED <<pc, numIterations, round, wpos, caseIdx, rep, times, results,
                   stdout, warmCalls, raised>>
    /\ UNCHANGED genVars

\* one execution of stmt inside a timed batch returns
TimedCall ==
    /\ pc = "timing"
    /\ rep < REPEAT
    /\ iter < numIterations
    /\ timedCalls' = [timedCalls EXCEPT ![CurFunc] = @ + 1]
    /\ iter' = iter + 1
    /\ UNCHANGED <<pc, numIterations, round, wpos, caseIdx, rep, times, results,
                   stdout, warmCalls, raised>>
    /\ UNCHANGED genVars

\* the exception caught and the batch started again
TimedRaise_Retried ==
    /\ pc = "timing"
    /\ rep < REPEAT
    /\ iter < numIterations
    /\ timedCalls' = [timedCalls EXCEPT ![CurFunc] = @ + 1]
    /\ raised' = TRUE
    /\ iter' = 0
    /\ UNCHANGED <<pc, numIterations, round, wpos, caseIdx, rep, times, results,
                   stdout, warmCalls>>
    /\ UNCHANGED genVars

\* the exception caught and the loop of line 47 continued with the next case
TimedRaise_Skipped ==
    /\ pc = "timing"
    /\ rep < REPEAT
    /\ iter < numIterations
    /\ timedCalls' = [timedCalls EXCEPT ![CurFunc] = @ + 1]
    /\ raised' = TRUE
    /\ caseIdx' = caseIdx + 1
    /\ pc' = "case"
    /\ UNCHANGED <<numIterations, round, wpos, rep, iter, times, results,
                   stdout, warmCalls>>
    /\ UNCHANGED genVars

\* one execution of stmt inside a timed batch raises; nothing catches it
TimedRaise ==
    /\ pc = "timing"
    /\ rep < REPEAT
    /\ iter < numIterations
    /\ timedCalls' = [timedCalls EXCEPT ![CurFunc] = @ + 1]
    /\ raised' = TRUE
    /\ pc' = "failed"
    /\ UNCHANGED <<numIterations, round, wpos, caseIdx, rep, iter, times, results,
                   stdout, warmCalls>>
    /\ UNCHANGED genVars

\* a timed batch ends: timer.repeat appends its elapsed total
BatchEnd ==
    /\ pc = "timing"
    /\ rep < REPEAT
    /\ iter >= numIterations
    /\ \E t \in TimeSet : times' = Append(times, t)
    /\ rep' = rep + 1
    /\ iter' = 0
    /\ UNCHANGED <<pc, numIterations, round, wpos, caseIdx, results, stdout,
                   warmCalls, timedCalls, raised>>
    /\ UNCHANGED genVars

\* lines 54-66: timer.repeat has returned; the metrics, the dict entry, two prints
Summarize ==
    /\ pc = "timing"
    /\ rep >= REPEAT
    /\ IF MetricsRaise(times, numIterations)
       THEN /\ raised' = TRUE
            /\ pc' = "failed"
            /\ UNCHANGED <<caseIdx, results, stdout>>
       ELSE /\ results' = DictSet(results, CurName, Metrics(times, numIterations))
            /\ stdout' = stdout \o <<Line("average", CurName, Metrics(times, numIterations)),
                                     Line("ops", CurName, Metrics(times, numIterations))>>
            /\ caseIdx' = caseIdx + 1
            /\ pc' = "case"
            /\ UNCHANGED raised
    /\ UNCHANGED <<numIterations, round, wpos, rep, iter, times, warmCalls, timedCalls>>
    /\ UNCHANGED genVars

\* the table printed when the last case has only been reached
PrintTable_BeforeLastCase ==
    /\ pc = "case"
    /\ caseIdx >= Len(TEST_CASES)
    /\ stdout' = stdout \o <<Text("title", ""), Text("header", ""), Text("rule", "")>>
                        \o Rows(sorted(results))
    /\ pc' = "done"
    /\ UNCHANGED <<numIterations, round, wpos, caseIdx, rep, iter, times, results,
                   warmCalls, timedCalls, raised>>
    /\ UNCHANGED genVars

\* lines 68-73: the loop of line 47 has ended
PrintTable ==
    /\ pc = "case"
    /\ caseIdx > Len(TEST_CASES)
    /\ stdout' = stdout \o <<Text("title", ""), Text("header", ""), Text("rule", "")>>
                        \o Rows(sorted(results))
    /\ pc' = "done"
    /\ UNCHANGED <<numIterations, round, wpos, caseIdx, rep, iter, times, results,
                   warmCalls, timedCalls, raised>>
    /\ UNCHANGED genVars

Next ==
    \/ Begin
    \/ WarmupCall
    \/ WarmupRaise
    \/ WarmupDone
    \/ CaseBegin
    \/ TimedCall
    \/ TimedRaise
    \/ BatchEnd
    \/ Summarize
    \/ PrintTable

Spec == Init /\ [][Next]_vars

\* the rows of the summary table, in the order printed
IsRow(l) == l.kind = "row"

Table == SelectSeq(stdout, IsRow)

---------------------------------------------------------------------------
(* The run under any value of the configuration constant NUM_ITERATIONS *)

InitCfg ==
    /\ \E n \in -1 .. NUM_ITERATIONS : InitRunner(n)
    /\ InitGenIdle

SpecCfg == InitCfg /\ [][Next]_vars

---------------------------------------------------------------------------
(* The metrics on their own: run_benchmark at line 54 with any five totals *)

RECURSIVE SeqsOf(_, _)
SeqsOf(S, n) ==
    IF n = 0 THEN {<<>>}
    ELSE {Append(s, x) : s \in SeqsOf(S, n - 1), x \in S}

InitSum ==
    /\ pc = "timing"
    /\ numIterations \in {NUM_ITERATIONS, SOURCE_NUM_ITERATIONS}
    /\ round = WARMUP_ROUNDS
    /\ wpos = 1
    /\ caseIdx \in 1 .. Len(TEST_CASES)
    /\ rep = REPEAT
    /\ iter = 0
    /\ times \in SeqsOf(SumTimeSet, REPEAT)
    /\ results = <<>>
    /\ stdout = <<>>
    /\ warmCalls = [f \in Generators |-> WARMUP_ROUNDS]
    /\ timedCalls = [f \in Generators |-> 0]
    /\ raised = FALSE
    /\ InitGenIdle

SpecSum == InitSum /\ [][Summarize]_vars

---------------------------------------------------------------------------
(* The generators on their own: one call on any two bytes of entropy *)

InitGen ==
    /\ InitRunner(NUM_ITERATIONS)
    /\ entropy \in Byte \X Byte
    /\ called = ""
    /\ ret = -1

CallGenerator ==
    /\ called = ""
    /\ \E f \in Generators :
          /\ called' = f
          /\ ret' = Call(f, entropy)
    /\ UNCHANGED entropy
    /\ UNCHANGED runnerVars

SpecGen == InitGen /\ [][CallGenerator]_vars

---------------------------------------------------------------------------
(* Claims about the generators, under SpecGen *)

\* C1: every generator, whatever bytes the randomness source yields, returns
\* an integer in the closed range [0, 16383].
C1_ReturnIn14Bits ==
    called # "" => (ret >= 0 /\ ret <= 16383)

\* a call whose entropy has both bits above the 14th set
C1_Witness ==
    /\ called = "clockseq_urandom"
    /\ entropy = <<255, 255>>
    /\ ret = 16383

\* C7: for every pair of bytes (b0, b1), clockseq_urandom and
\* clockseq_urandom_optimized both return (b0*256 + b1) mod 16384, so the
\* two agree on every input.
C7_UrandomVariantsAgree ==
    /\ called \in {"clockseq_urandom", "clockseq_urandom_optimized"}
          => ret = (entropy[1] * 256 + entropy[2]) % 16384
    /\ clockseq_urandom(entropy) = clockseq_urandom_optimized(entropy)

\* the optimized variant on bytes whose order matters and whose top bits are set
C7_Witness ==
    /\ called = "clockseq_urandom_optimized"
    /\ entropy = <<200, 7>>
    /\ ret = 2055

---------------------------------------------------------------------------
(* Claims about the metrics, under SpecSum *)

\* the sum of the totals in hundredths of a second
RECURSIVE Hundredths(_)
Hundredths(ts) ==
    IF ts = <<>> THEN 0
    ELSE ts[1][1] * (100 \div ts[1][2]) + Hundredths(Tail(ts))

\* C2: for the totals recorded and the iteration count N, the record stored
\* has avg_ns = mean(totals) / N * 1e9 and ops_per_sec = N / mean(totals);
\* totals averaging 0.10 s with N = 1,000,000 give 100 ns and 10,000,000
\* calls per second.
C2_RecordFromTotals ==
    (pc = "case" /\ caseIdx > 1) =>
        LET rec == DictGet(results, TEST_CASES[caseIdx - 1][1])
            h == Hundredths(times)
            k == 100 * Len(times)
        IN  /\ DictHas(results, TEST_CASES[caseIdx - 1][1])
            /\ rec.avg_ns = Norm(h * (NS_PER_S \div k), numIterations)
            /\ rec.ops_per_sec = Norm(k * numIterations, h)
            /\ (h * 10 = k /\ numIterations = 1000000)
                  => (rec.avg_ns = <<100, 1>> /\ rec.ops_per_sec = <<10000000, 1>>)

\* the totals 0.10, 0.11, 0.09, 0.10, 0.10 with the iteration count of the source
C2_Witness ==
    /\ pc = "case"
    /\ numIterations = SOURCE_NUM_ITERATIONS
    /\ times = << <<1, 10>>, <<11, 100>>, <<9, 100>>, <<1, 10>>, <<1, 10>> >>
    /\ results # <<>>
    /\ results[1][2].avg_ns = <<100, 1>>

---------------------------------------------------------------------------
(* Claims about the run, under Spec *)

NumCases == Len(TEST_CASES)

\* the generator of the k-th test case
CaseFunc(k) == StmtFunc(TEST_CASES[k][2])

CaseName(k) == TEST_CASES[k][1]

\* the timed calls a generator gets in a whole measurement
FullyTimed == REPEAT * numIterations

RECURSIVE SumCalls(_, _)
SumCalls(c, k) == IF k = 0 THEN 0 ELSE c[CaseFunc(k)] + SumCalls(c, k - 1)

\* C3: the summary table lists the generators in ascending order of average
\* latency: a row printed earlier never has a greater average than a row
\* printed later, whatever the order the results were inserted in.
C3_TableAscending ==
    pc = "done" =>
        /\ Len(Table) > 1
        /\ \A i, j \in 1 .. Len(Table) :
              i < j => ~RatLess(Table[j].avg_ns, Table[i].avg_ns)

\* results inserted as middle, least, greatest (the 50, 20, 80 of the example)
C3_Witness ==
    /\ pc = "done"
    /\ RatLess(results[2][2].avg_ns, results[1][2].avg_ns)
    /\ RatLess(results[1][2].avg_ns, results[3][2].avg_ns)
    /\ RatLess(results[3][2].avg_ns, results[4][2].avg_ns)
    /\ Table[1].name = results[2][1]
    /\ Table[2].name = results[1][1]
    /\ Table[3].name = results[3][1]

\* C4: in a run that completes every generator is called WARMUP_ROUNDS times
\* in the warmup and REPEAT * NUM_ITERATIONS times under the timer, the total
\* being WARMUP_ROUNDS*4 + REPEAT*NUM_ITERATIONS*4; the warmup adds nothing to
\* any sample set, which holds one total per timed batch and REPEAT in the end.
C4_CallCountsAndSamples ==
    /\ pc = "done" =>
          /\ \A f \in Generators :
                warmCalls[f] = WARMUP_ROUNDS /\ timedCalls[f] = REPEAT * NUM_ITERATIONS
          /\ SumCalls(warmCalls, NumCases) + SumCalls(timedCalls, NumCases)
                = WARMUP_ROUNDS * 4 + REPEAT * NUM_ITERATIONS * 4
    /\ pc \in {"start", "warmup"} => (times = <<>> /\ results = <<>>)
    /\ pc = "timing" =>
          /\ Len(times) = rep
          /\ Len(times) * numIterations + iter = timedCalls[CurFunc]
    /\ (pc = "done" \/ (pc = "case" /\ caseIdx > 1)) => Len(times) = REPEAT

\* a completed run
C4_Witness ==
    /\ pc = "done"
    /\ warmCalls["clockseq_secrets"] = WARMUP_ROUNDS
    /\ timedCalls["clockseq_urandom_optimized"] = REPEAT * NUM_ITERATIONS
    /\ Len(times) = REPEAT

\* C6 as stated: no warmup or timed call of a later candidate happens before
\* the last timed call of an earlier candidate.
C6_CandidateWarmedThenMeasuredInTurn ==
    \A i, j \in 1 .. NumCases :
        (i < j /\ (warmCalls[CaseFunc(j)] > 0 \/ timedCalls[CaseFunc(j)] > 0))
            => timedCalls[CaseFunc(i)] = FullyTimed

\* C6 amended: no timed call of a later candidate happens before the last
\* timed call of an earlier candidate, and a candidate gets its first timed
\* call only after all its warmup calls.
C6_MeasuredInTurnAfterOwnWarmup ==
    /\ \A i, j \in 1 .. NumCases :
          (i < j /\ timedCalls[CaseFunc(j)] > 0)
              => timedCalls[CaseFunc(i)] = FullyTimed
    /\ \A j \in 1 .. NumCases :
          timedCalls[CaseFunc(j)] > 0 => warmCalls[CaseFunc(j)] = WARMUP_ROUNDS

\* the second candidate under the timer
C6_Witness ==
    /\ pc = "timing"
    /\ caseIdx = 2
    /\ timedCalls[CaseFunc(2)] = 1
    /\ timedCalls[CaseFunc(1)] = FullyTimed

\* C8: an exception raised during the run is fatal: the run is failed and
\* takes no further step (no retry), no record is stored for the generator
\* being measured, no later generator is timed, and no table is printed.
C8_ExceptionIsFatal ==
    raised =>
        /\ pc = "failed"
        /\ ~ENABLED Next
        /\ Table = <<>>
        /\ caseIdx >= 1 => ~DictHas(results, CurName)
        /\ \A k \in 1 .. NumCases : k > caseIdx => timedCalls[CaseFunc(k)] = 0

\* the second generator raises in its fourth batch
C8_Witness ==
    /\ raised
    /\ pc = "failed"
    /\ caseIdx = 2
    /\ rep = 3
    /\ Len(results) = 1

\* C9: all WARMUP_ROUNDS*4 warmup calls happen before the first timed call,
\* and the timed batches run per generator in TEST_CASES order: while one is
\* timed, those before it are finished and those after it not begun.
C9_WarmupThenCasesInOrder ==
    /\ pc \in {"start", "warmup"} => \A f \in Generators : timedCalls[f] = 0
    /\ (\E f \in Generators : timedCalls[f] > 0)
          => /\ \A f \in Generators : warmCalls[f] = WARMUP_ROUNDS
             /\ SumCalls(warmCalls, NumCases) = WARMUP_ROUNDS * 4
    /\ pc = "timing" =>
          \A k \in 1 .. NumCases :
              timedCalls[CaseFunc(k)] =
                  IF k < caseIdx THEN FullyTimed
                  ELSE IF k = caseIdx THEN rep * numIterations + iter
                  ELSE 0

\* the third generator in its second batch
C9_Witness ==
    /\ pc = "timing"
    /\ caseIdx = 3
    /\ rep = 1
    /\ iter = 1
    /\ timedCalls["clockseq_urandom"] = numIterations + 1

\* C10: the table is printed only after all four generators have been
\* measured and summarized, and has exactly one row per TEST_CASES entry,
\* the row showing the record stored for that generator.
C10_TableCompleteAndLast ==
    /\ Table # <<>> =>
          /\ pc = "done"
          /\ Len(results) = NumCases
          /\ \A k \in 1 .. NumCases : timedCalls[CaseFunc(k)] = FullyTimed
    /\ pc = "done" =>
          /\ Len(Table) = NumCases
          /\ \A k \in 1 .. NumCases :
                /\ Cardinality({i \in 1 .. Len(Table) : Table[i].name = CaseName(k)}) = 1
                /\ DictHas(results, CaseName(k))
                /\ \A i \in 1 .. Len(Table) :
                      Table[i].name = CaseName(k) =>
                          /\ Table[i].avg_ns = DictGet(results, CaseName(k)).avg_ns
                          /\ Table[i].ops_per_sec = DictGet(results, CaseName(k)).ops_per_sec
          /\ DictGet(results, CaseName(NumCases)) = Metrics(times, numIterations)

\* a printed table led by the last test case
C10_Witness ==
    /\ pc = "done"
    /\ Len(Table) = 4
    /\ Table[1].name = "os.urandom_optimized"
    /\ RatLess(Table[1].avg_ns, Table[2].avg_ns)

---------------------------------------------------------------------------
(* Claim about the configuration, under SpecCfg *)

\* C5: when the iteration count is zero or negative the run is rejected at
\* startup: no warmup call, no timed batch, no statistic, nothing of them
\* printed.
C5_NonPositiveRejectedAtStartup ==
    numIterations <= 0 =>
        /\ \A f \in Generators : warmCalls[f] = 0 /\ timedCalls[f] = 0
        /\ times = <<>>
        /\ results = <<>>
        /\ Table = <<>>

=============================================================================
